---- MODULE Spec2Model ----
(***************************************************************************)
(* The exchange state model of packages/loopring_v3.js/src/types.ts:       *)
(* StorageLeaf, BalanceLeaf, AccountLeaf and ExchangeState.                *)
(*                                                                         *)
(* Objects live in heaps (one sequence per class); a reference is the      *)
(* 1-based index of the object in its heap, so that object identity, as    *)
(* JavaScript's === sees it, is equality of references.  accounts[] holds  *)
(* references in array order; JavaScript index k is position k + 1.        *)
(***************************************************************************)
EXTENDS Integers, Sequences, FiniteSets, TLC

\* ------------------------------------------------------------------------
\* Constants of ./constants (imported at types.ts:2)
\* ------------------------------------------------------------------------
zeroAddress == "0x0"

BINARY_TREE_DEPTH_STORAGE == 14

\* ------------------------------------------------------------------------
\* Bounds of the model
\* ------------------------------------------------------------------------
\* largest account id passed to getAccount / largest preloaded account list
MaxAccountId == 2

\* number of AccountLeaf.init calls in one behaviour
MaxInits == 1

\* largest number of full cycles between two storage ids of the model
MaxCycles == 2

AccountIds == 0..MaxAccountId

\* the accounts whose leaves are read and written
LeafAccountIds == {0, 1}

\* the accounts init is called on
InitAccountIds == {1}

\* the accounts the applier writes leaves of
WrittenAccountIds == {1}

TokenIDs == {0, 3}

\* the token the applier deposits
WrittenTokenIDs == {3}

\* the storage id the applier's orders use
WrittenStorageIDs == {17}

Amounts == {1000}

StorageData == {7}

Owners == {"0xA"}

PubKeys == {"7"}

Nonces == {1}

\* storage ids of the protocol (unsigned), one full cycle apart
ProtocolStorageIDs == {17, 17 + 2^BINARY_TREE_DEPTH_STORAGE}

\* storage ids as the type `number` admits them: negative ones too
IntegerStorageIDs == ProtocolStorageIDs \cup {17 - 2^BINARY_TREE_DEPTH_STORAGE}

VARIABLES
  constructed,        \* the ExchangeState constructor has returned
  exchange,           \* ExchangeState.exchange
  accounts,           \* ExchangeState.accounts: sequence of AccountLeaf refs
  accountIdToOwner,   \* ExchangeState.accountIdToOwner
  ownerToAccountId,   \* ExchangeState.ownerToAccountId
  deposits,           \* ExchangeState.deposits
  onchainWithdrawals, \* ExchangeState.onchainWithdrawals
  processedRequests,  \* ExchangeState.processedRequests
  accountObjs,        \* heap of AccountLeaf objects
  balanceMaps,        \* heap of { [key: number]: BalanceLeaf } objects
  storageMaps,        \* heap of { [key: number]: StorageLeaf } objects
  last,               \* the last call: operation, receiver, argument, result
  again,              \* the last call repeated the call before it
  balWritten,         \* per account id: tokenID -> balance last set
  stWritten,          \* per account id: storageID -> slot contents last set
  stSet,              \* per account id: the storageIDs that were ever set
  explicitUsed,       \* init was called with explicit balances or storage
  idDomain,           \* which storage ids callers pass: protocol or integers
  nInits              \* number of init calls so far

heapVars == <<accountObjs, balanceMaps, storageMaps>>

stateVars == <<exchange, accounts, accountIdToOwner, ownerToAccountId,
               deposits, onchainWithdrawals, processedRequests>>

ghostVars == <<balWritten, stWritten, stSet, explicitUsed>>

vars == <<constructed, stateVars, heapVars, last, again, ghostVars, idDomain, nInits>>

\* ------------------------------------------------------------------------
\* Helpers: JavaScript objects used as maps, arithmetic
\* ------------------------------------------------------------------------
\* the object literal {}
EmptyMap == [k \in {} |-> 0]

\* slip: the accessor never finds the leaf and always creates one
IsUndefined_always(map, key) == TRUE

\* map[key] === undefined
IsUndefined(map, key) == key \notin DOMAIN map

\* slip: the map is replaced by one holding only the new key
MapSet_clobber(map, key, value) == (key :> value)

\* map[key] = value
MapSet(map, key, value) == (key :> value) @@ map

\* JavaScript's % on integers: the result takes the sign of the dividend
JsRem(a, n) == IF a >= 0 THEN a % n ELSE 0 - ((0 - a) % n)

\* decimal digits of a non-negative integer, most significant first
RECURSIVE toString10(_)
toString10(n) == IF n < 10 THEN <<n>> ELSE Append(toString10(n \div 10), n % 10)

\* the integer a sequence of decimal digits denotes
RECURSIVE parseBN(_)
parseBN(ds) ==
  IF Len(ds) = 0 THEN 0
  ELSE 10 * parseBN(SubSeq(ds, 1, Len(ds) - 1)) + ds[Len(ds)]

\* ------------------------------------------------------------------------
\* StorageLeaf, BalanceLeaf
\*
\* A leaf is stored in the map slot that holds it, with an identity `id`:
\* the n-th object assigned to a slot of a map has id n, so the leaf object
\* is named by (map reference, key, id).
\* ------------------------------------------------------------------------
\* slip: a new slot is not zero-initialized
StorageLeaf_dirty ==
  [data |-> 1, storageID |-> 0, gasFee |-> 0, cancelled |-> 0,
   tokenSID |-> 0, tokenBID |-> 0, forward |-> 1]

StorageLeaf ==
  [data |-> 0, storageID |-> 0, gasFee |-> 0, cancelled |-> 0,
   tokenSID |-> 0, tokenBID |-> 0, forward |-> 1]

BalanceLeaf == [balance |-> 0]

\* BalanceLeaf.init(balance)
BalanceLeaf_init(leaf, balance) == [leaf EXCEPT !.balance = parseBN(toString10(balance))]

\* the identity of an object newly assigned to map[key]
FreshLeafId(map, key) == IF key \in DOMAIN map THEN map[key].id + 1 ELSE 1

\* the slot holding leaf object `leaf` under identity id
Slot(id, leaf) == [id |-> id, leaf |-> leaf]

\* ------------------------------------------------------------------------
\* AccountLeaf
\* ------------------------------------------------------------------------
\* slip: one shared object stands for every {}
NewMapRef_shared(maps) == 1

\* the reference a `{}` evaluated now gets in heap `maps`
NewMapRef(maps) == Len(maps) + 1

\* slip: every account is constructed with accountId 0
AccountLeaf_zeroId(accountId, balancesRef, storageRef) ==
  [exchange |-> zeroAddress, accountId |-> 0, owner |-> zeroAddress,
   publicKeyX |-> "0", publicKeyY |-> "0",
   appKeyPublicKeyX |-> "0", appKeyPublicKeyY |-> "0",
   disableAppKeySpotTrade |-> 0, disableAppKeyWithdraw |-> 0,
   disableAppKeyTransferToOther |-> 0,
   nonce |-> 0, balances |-> balancesRef, storage |-> storageRef]

\* the fields the constructor sets; balancesRef and storageRef are the two
\* object literals it evaluates
AccountLeaf(accountId, balancesRef, storageRef) ==
  [exchange |-> zeroAddress, accountId |-> accountId, owner |-> zeroAddress,
   publicKeyX |-> "0", publicKeyY |-> "0",
   appKeyPublicKeyX |-> "0", appKeyPublicKeyY |-> "0",
   disableAppKeySpotTrade |-> 0, disableAppKeyWithdraw |-> 0,
   disableAppKeyTransferToOther |-> 0,
   nonce |-> 0, balances |-> balancesRef, storage |-> storageRef]

\* new AccountLeaf(accountId) on heap h: the object and its two fresh maps
NewAccountLeaf(h, accountId) ==
  LET b == NewMapRef(h.balanceMaps)
      s == NewMapRef(h.storageMaps)
  IN [h EXCEPT !.accountObjs = Append(@, AccountLeaf(accountId, b, s)),
               !.balanceMaps = IF b > Len(@) THEN Append(@, EmptyMap) ELSE @,
               !.storageMaps = IF s > Len(@) THEN Append(@, EmptyMap) ELSE @]

\* slip: the storage id itself is the key
StorageAddress_noMod(storageID) == storageID

\* const address = storageID % 2 ** Constants.BINARY_TREE_DEPTH_STORAGE
StorageAddress(storageID) == JsRem(storageID, 2^BINARY_TREE_DEPTH_STORAGE)

\* ------------------------------------------------------------------------
\* ExchangeState.getAccount
\* ------------------------------------------------------------------------
\* the loop condition of getAccount
NeedsPush(accountID, length) == accountID >= length

\* this.accounts.push(new AccountLeaf(this.accounts.length))
PushAccount(h) ==
  LET h1 == NewAccountLeaf(h, Len(h.accounts))
  IN [h1 EXCEPT !.accounts = Append(@, Len(h1.accountObjs))]

\* slip: a do-while loop, which pushes before it tests
RECURSIVE getAccountLoop_doWhile(_, _)
getAccountLoop_doWhile(h, accountID) ==
  LET h1 == PushAccount(h)
  IN IF NeedsPush(accountID, Len(h1.accounts))
     THEN getAccountLoop_doWhile(h1, accountID)
     ELSE h1

\* the while loop of getAccount, on h = the accounts array and the heaps
RECURSIVE getAccountLoop(_, _)
getAccountLoop(h, accountID) ==
  IF NeedsPush(accountID, Len(h.accounts))
  THEN getAccountLoop(PushAccount(h), accountID)
  ELSE h

\* the accounts array and the heaps getAccount touches, as one record
Heap ==
  [accounts |-> accounts, accountObjs |-> accountObjs,
   balanceMaps |-> balanceMaps, storageMaps |-> storageMaps]

\* return this.accounts[accountID]
AccountAt(h, accountID) == h.accounts[accountID + 1]

\* ------------------------------------------------------------------------
\* AccountLeaf.getBalance, AccountLeaf.getStorage on the heaps
\* ------------------------------------------------------------------------
\* getBalance(tokenID) on the account whose balances field is map m:
\* the heap afterwards and the returned leaf object
getBalanceOp(bm, m, tokenID) ==
  LET maps == IF IsUndefined(bm[m], tokenID)
              THEN [bm EXCEPT ![m] = MapSet(@, tokenID,
                                            Slot(FreshLeafId(@, tokenID), BalanceLeaf))]
              ELSE bm
  IN [balanceMaps |-> maps, ret |-> <<"BalanceLeaf", m, tokenID, maps[m][tokenID].id>>]

\* getStorage(storageID) on the account whose storage field is map m
getStorageOp(sm, m, storageID) ==
  LET address == StorageAddress(storageID)
      maps == IF IsUndefined(sm[m], address)
              THEN [sm EXCEPT ![m] = MapSet(@, address,
                                            Slot(FreshLeafId(@, address), StorageLeaf))]
              ELSE sm
  IN [storageMaps |-> maps, address |-> address,
      ret |-> <<"StorageLeaf", m, address, maps[m][address].id>>]

\* ------------------------------------------------------------------------
\* Inputs and call records
\* ------------------------------------------------------------------------
\* the storage ids callers pass
StorageIdInputs == IF idDomain = "integers" THEN IntegerStorageIDs ELSE ProtocolStorageIDs

\* the accounts callers read and write leaves of; one account is enough for
\* the addressing of integer storage ids
LeafAccountInputs == IF idDomain = "integers" THEN InitAccountIds ELSE LeafAccountIds

\* S and T differ by a whole number of cycles of 2^BINARY_TREE_DEPTH_STORAGE
SameClass(S, T) ==
  \E k \in (0 - MaxCycles)..MaxCycles : T = S + k * 2^BINARY_TREE_DEPTH_STORAGE

\* the accounts argument of the constructor: n accounts the caller built
\* with new AccountLeaf(0), ..., new AccountLeaf(n - 1); n = 0 is the default []
RECURSIVE CallerAccounts(_)
CallerAccounts(n) ==
  IF n = 0
  THEN [accounts |-> <<>>, accountObjs |-> <<>>, balanceMaps |-> <<>>, storageMaps |-> <<>>]
  ELSE LET h  == CallerAccounts(n - 1)
           h1 == NewAccountLeaf(h, n - 1)
       IN [h1 EXCEPT !.accounts = Append(@, Len(h1.accountObjs))]

\* a snapshot's balance and storage slot, as a caller hydrating an account
\* passes them to init
Snapshot == [token |-> 3, balance |-> 500, storageID |-> 17, data |-> 1]

SnapshotStorageLeaf == [StorageLeaf EXCEPT !.storageID = Snapshot.storageID, !.data = Snapshot.data]

\* a call record: the operation, the receiving account (-1: the state), the
\* argument, the size of the receiver's container before the call
\* (accounts.length, or the number of keys of the map) and the result
Call(op, acct, arg, pre, ret) == [op |-> op, acct |-> acct, arg |-> arg, pre |-> pre, ret |-> ret]

NoCall == Call("none", 0 - 1, 0, 0, <<>>)

NoRepeat == [rel |-> "no", arg |-> 0]

\* how the call (op, acct, arg) relates to the call right before it: "same"
\* when that was op on the same receiver with the same argument, "cycle"
\* when it was getStorage on the same receiver with a different storage id a
\* whole number of cycles away, "no" otherwise; with that call's argument
Repeats(op, acct, arg) ==
  IF last.op = op /\ last.acct = acct /\ last.arg = arg
  THEN [rel |-> "same", arg |-> last.arg]
  ELSE IF op = "getStorage" /\ last.op = op /\ last.acct = acct /\ SameClass(last.arg, arg)
       THEN [rel |-> "cycle", arg |-> last.arg]
       ELSE NoRepeat

\* ------------------------------------------------------------------------
\* Initial state: before new ExchangeState(...)
\* ------------------------------------------------------------------------
InitCommon ==
  /\ constructed = FALSE
  /\ exchange = ""
  /\ accounts = <<>>
  /\ accountIdToOwner = EmptyMap
  /\ ownerToAccountId = EmptyMap
  /\ deposits = <<>>
  /\ onchainWithdrawals = <<>>
  /\ processedRequests = <<>>
  /\ accountObjs = <<>>
  /\ balanceMaps = <<>>
  /\ storageMaps = <<>>
  /\ last = NoCall
  /\ again = NoRepeat
  /\ balWritten = [a \in LeafAccountIds |-> EmptyMap]
  /\ stWritten = [a \in LeafAccountIds |-> EmptyMap]
  /\ stSet = [a \in LeafAccountIds |-> {}]
  /\ explicitUsed = FALSE
  /\ nInits = 0

Init == InitCommon /\ idDomain = "protocol"

InitInt == InitCommon /\ idDomain = "integers"

\* ------------------------------------------------------------------------
\* ExchangeState.constructor
\* ------------------------------------------------------------------------
\* slip: the constructor does not create the fee pool account
CreateFeePool_skip(h) == h

\* "Create the protocol fee pool accounts": this.getAccount(0)
CreateFeePool(h) == getAccountLoop(h, 0)

ExchangeState(exch, n) ==
  /\ ~constructed
  /\ LET h == CreateFeePool(CallerAccounts(n))
     IN /\ accounts' = h.accounts
        /\ accountObjs' = h.accountObjs
        /\ balanceMaps' = h.balanceMaps
        /\ storageMaps' = h.storageMaps
  /\ exchange' = exch
  /\ accountIdToOwner' = EmptyMap
  /\ ownerToAccountId' = EmptyMap
  /\ deposits' = <<>>
  /\ onchainWithdrawals' = <<>>
  /\ processedRequests' = <<>>
  /\ constructed' = TRUE
  /\ last' = Call("constructor", 0 - 1, n, 0, <<>>)
  /\ again' = NoRepeat
  /\ UNCHANGED <<ghostVars, idDomain, nInits>>

\* ------------------------------------------------------------------------
\* ExchangeState.getAccount
\* ------------------------------------------------------------------------
getAccount(accountID) ==
  /\ constructed
  /\ LET h == getAccountLoop(Heap, accountID)
     IN /\ accounts' = h.accounts
        /\ accountObjs' = h.accountObjs
        /\ balanceMaps' = h.balanceMaps
        /\ storageMaps' = h.storageMaps
        /\ last' = Call("getAccount", 0 - 1, accountID, Len(accounts),
                        <<"AccountLeaf", AccountAt(h, accountID)>>)
  /\ again' = Repeats("getAccount", 0 - 1, accountID)
  /\ UNCHANGED <<constructed, exchange, accountIdToOwner, ownerToAccountId,
                 deposits, onchainWithdrawals, processedRequests,
                 ghostVars, idDomain, nInits>>

\* ------------------------------------------------------------------------
\* AccountLeaf.getBalance, AccountLeaf.getStorage, called on accounts[a]
\* ------------------------------------------------------------------------
getBalance(a, tokenID) ==
  /\ constructed
  /\ a < Len(accounts)
  /\ LET r == getBalanceOp(balanceMaps, accountObjs[accounts[a + 1]].balances, tokenID)
     IN /\ balanceMaps' = r.balanceMaps
        /\ last' = Call("getBalance", a, tokenID,
                        Cardinality(DOMAIN balanceMaps[accountObjs[accounts[a + 1]].balances]),
                        r.ret)
  /\ again' = Repeats("getBalance", a, tokenID)
  /\ UNCHANGED <<constructed, stateVars, accountObjs, storageMaps,
                 ghostVars, idDomain, nInits>>

getStorage(a, storageID) ==
  /\ constructed
  /\ a < Len(accounts)
  /\ LET r == getStorageOp(storageMaps, accountObjs[accounts[a + 1]].storage, storageID)
     IN /\ storageMaps' = r.storageMaps
        /\ last' = Call("getStorage", a, storageID,
                        Cardinality(DOMAIN storageMaps[accountObjs[accounts[a + 1]].storage]),
                        r.ret)
  /\ again' = Repeats("getStorage", a, storageID)
  /\ UNCHANGED <<constructed, stateVars, accountObjs, balanceMaps,
                 ghostVars, idDomain, nInits>>

\* ------------------------------------------------------------------------
\* AccountLeaf.init, called on accounts[a]
\* ------------------------------------------------------------------------
\* the fields init assigns
InitFields(acc, owner, publicKeyX, publicKeyY, appKeyPublicKeyX, appKeyPublicKeyY, nonce, balancesRef, storageRef) ==
  [acc EXCEPT !.exchange = zeroAddress,
              !.accountId = 0,
              !.owner = owner,
              !.publicKeyX = publicKeyX,
              !.publicKeyY = publicKeyY,
              !.appKeyPublicKeyX = appKeyPublicKeyX,
              !.appKeyPublicKeyY = appKeyPublicKeyY,
              !.nonce = nonce,
              !.balances = balancesRef,
              !.storage = storageRef]

\* garbage collection: a map no account of objs references any more keeps
\* its reference but loses its contents
Collect(maps, ref, field, objs) ==
  IF \E r \in 1..Len(objs) : objs[r][field] = ref
  THEN maps
  ELSE [maps EXCEPT ![ref] = EmptyMap]

\* the balances map a caller builds from a snapshot
SnapshotBalances ==
  MapSet(EmptyMap, Snapshot.token, Slot(1, BalanceLeaf_init(BalanceLeaf, Snapshot.balance)))

\* the storage map a caller builds from a snapshot
SnapshotStorage ==
  MapSet(EmptyMap, Snapshot.storageID, Slot(1, SnapshotStorageLeaf))

\* explicit: the caller passes the balances and storage maps it built from a
\* snapshot; otherwise the parameters' defaults {} are evaluated
init(a, owner, publicKeyX, publicKeyY, appKeyPublicKeyX, appKeyPublicKeyY, nonce, explicit) ==
  /\ constructed
  /\ a < Len(accounts)
  /\ nInits < MaxInits
  /\ LET ref == accounts[a + 1]
         b == IF explicit THEN Len(balanceMaps) + 1 ELSE NewMapRef(balanceMaps)
         s == IF explicit THEN Len(storageMaps) + 1 ELSE NewMapRef(storageMaps)
         bm == IF b > Len(balanceMaps)
               THEN Append(balanceMaps, IF explicit THEN SnapshotBalances ELSE EmptyMap)
               ELSE balanceMaps
         sm == IF s > Len(storageMaps)
               THEN Append(storageMaps, IF explicit THEN SnapshotStorage ELSE EmptyMap)
               ELSE storageMaps
         objs == [accountObjs EXCEPT ![ref] =
                    InitFields(@, owner, publicKeyX, publicKeyY, appKeyPublicKeyX,
                               appKeyPublicKeyY, nonce, b, s)]
     IN /\ accountObjs' = objs
        /\ balanceMaps' = Collect(bm, accountObjs[ref].balances, "balances", objs)
        /\ storageMaps' = Collect(sm, accountObjs[ref].storage, "storage", objs)
  /\ balWritten' = [balWritten EXCEPT ![a] =
                      IF explicit THEN MapSet(EmptyMap, Snapshot.token, Snapshot.balance)
                      ELSE EmptyMap]
  /\ stWritten' = [stWritten EXCEPT ![a] =
                     IF explicit
                     THEN [S \in {T \in StorageIdInputs : SameClass(Snapshot.storageID, T)}
                             |-> SnapshotStorageLeaf]
                     ELSE EmptyMap]
  /\ stSet' = [stSet EXCEPT ![a] = IF explicit THEN {Snapshot.storageID} ELSE {}]
  /\ explicitUsed' = (explicitUsed \/ explicit)
  /\ nInits' = nInits + 1
  /\ last' = Call("init", a, 0, 0, <<>>)
  /\ again' = NoRepeat
  /\ UNCHANGED <<constructed, stateVars, idDomain>>

\* ------------------------------------------------------------------------
\* The external applier: it mutates the leaves the accessors return
\* ------------------------------------------------------------------------
\* state.getAccount(a).getBalance(tokenID).balance = amount
WriteBalance(a, tokenID, amount) ==
  /\ constructed
  /\ LET h == getAccountLoop(Heap, a)
         m == h.accountObjs[AccountAt(h, a)].balances
         r == getBalanceOp(h.balanceMaps, m, tokenID)
     IN /\ accounts' = h.accounts
        /\ accountObjs' = h.accountObjs
        /\ storageMaps' = h.storageMaps
        /\ balanceMaps' = [r.balanceMaps EXCEPT ![m][tokenID].leaf.balance = amount]
  /\ last' = Call("writeBalance", a, tokenID, 0, <<>>)
  /\ again' = NoRepeat
  /\ balWritten' = [balWritten EXCEPT ![a] = MapSet(@, tokenID, amount)]
  /\ UNCHANGED <<constructed, exchange, accountIdToOwner, ownerToAccountId,
                 deposits, onchainWithdrawals, processedRequests,
                 stWritten, stSet, explicitUsed, idDomain, nInits>>

\* leaf = state.getAccount(a).getStorage(storageID);
\* leaf.data = data; leaf.storageID = storageID
WriteStorage(a, storageID, data) ==
  /\ constructed
  /\ LET h == getAccountLoop(Heap, a)
         m == h.accountObjs[AccountAt(h, a)].storage
         r == getStorageOp(h.storageMaps, m, storageID)
         leaf == [r.storageMaps[m][r.address].leaf EXCEPT !.data = data, !.storageID = storageID]
     IN /\ accounts' = h.accounts
        /\ accountObjs' = h.accountObjs
        /\ balanceMaps' = h.balanceMaps
        /\ storageMaps' = [r.storageMaps EXCEPT ![m][r.address].leaf = leaf]
        /\ stWritten' = [stWritten EXCEPT ![a] =
                           [S \in {T \in StorageIdInputs : SameClass(storageID, T)} |-> leaf] @@ @]
  /\ last' = Call("writeStorage", a, storageID, 0, <<>>)
  /\ again' = NoRepeat
  /\ stSet' = [stSet EXCEPT ![a] = @ \cup {storageID}]
  /\ UNCHANGED <<constructed, exchange, accountIdToOwner, ownerToAccountId,
                 deposits, onchainWithdrawals, processedRequests,
                 balWritten, explicitUsed, idDomain, nInits>>

\* ------------------------------------------------------------------------
\* Specifications
\* ------------------------------------------------------------------------
Next ==
  \/ \E n \in 0..MaxAccountId : ExchangeState("0xEXC", n)
  \/ \E id \in AccountIds : getAccount(id)
  \/ \E a \in LeafAccountInputs, t \in TokenIDs : getBalance(a, t)
  \/ \E a \in LeafAccountInputs, S \in StorageIdInputs : getStorage(a, S)
  \/ \E a \in InitAccountIds, o \in Owners, k \in PubKeys, nc \in Nonces, e \in BOOLEAN :
       init(a, o, k, k, k, k, nc, e)
  \/ \E a \in WrittenAccountIds, t \in WrittenTokenIDs, v \in Amounts : WriteBalance(a, t, v)
  \/ \E a \in WrittenAccountIds, S \in WrittenStorageIDs, d \in StorageData : WriteStorage(a, S, d)

\* callers pass unsigned storage ids
Spec == Init /\ [][Next]_vars

\* callers pass any integer storage id
SpecInt == InitInt /\ [][Next]_vars

\* references point into the heaps
TypeOK ==
  /\ constructed \in BOOLEAN
  /\ \A i \in 1..Len(accounts) : accounts[i] \in 1..Len(accountObjs)
  /\ \A r \in 1..Len(accountObjs) :
       /\ accountObjs[r].balances \in 1..Len(balanceMaps)
       /\ accountObjs[r].storage \in 1..Len(storageMaps)

\* ------------------------------------------------------------------------
\* Views of the state used by the properties
\* ------------------------------------------------------------------------
\* the account object at JavaScript index i of accounts
Acc(i) == accountObjs[accounts[i + 1]]

\* the contents of its balances and storage maps
BalMap(i) == balanceMaps[Acc(i).balances]

StMap(i) == storageMaps[Acc(i).storage]

\* accounts[i] is a zero-valued account with id i and empty maps
FreshZero(i) ==
  /\ Acc(i) = [exchange |-> zeroAddress, accountId |-> i, owner |-> zeroAddress,
               publicKeyX |-> "0", publicKeyY |-> "0",
               appKeyPublicKeyX |-> "0", appKeyPublicKeyY |-> "0",
               disableAppKeySpotTrade |-> 0, disableAppKeyWithdraw |-> 0,
               disableAppKeyTransferToOther |-> 0, nonce |-> 0,
               balances |-> Acc(i).balances, storage |-> Acc(i).storage]
  /\ DOMAIN BalMap(i) = {}
  /\ DOMAIN StMap(i) = {}

\* the leaf object a getBalance / getStorage call returned
BalanceLeafOf(ret) == balanceMaps[ret[2]][ret[3]].leaf

StorageLeafOf(ret) == storageMaps[ret[2]][ret[3]].leaf

\* ------------------------------------------------------------------------
\* C1: getAccount(accountId) called twice in a row returns the same account
\* object both times, the second call creates nothing and leaves accounts
\* unchanged, and after a call accounts.length >= accountId + 1.
\* ------------------------------------------------------------------------
C1_GetAccountTwice ==
  [][ /\ (last'.op = "getAccount" => Len(accounts') >= last'.arg + 1)
      /\ (last.op = "getAccount" /\ last'.op = "getAccount" /\ last'.arg = last.arg
            => /\ last'.ret = last.ret
               /\ accounts' = accounts
               /\ accountObjs' = accountObjs
               /\ balanceMaps' = balanceMaps
               /\ storageMaps' = storageMaps) ]_vars

\* getAccount(MaxAccountId) was called on a one-account state, then again
C1_Witness ==
  /\ last.op = "getAccount"
  /\ again.rel = "same"
  /\ last.arg = MaxAccountId
  /\ last.ret = <<"AccountLeaf", accounts[MaxAccountId + 1]>>
  /\ Len(accounts) = MaxAccountId + 1

\* ------------------------------------------------------------------------
\* C2: getAccount(id) with id >= accounts.length extends accounts to length
\* exactly id + 1 with fresh zero-valued accounts whose accountId is their
\* index, every account that existed before keeps its index and its fields;
\* with id < accounts.length it changes nothing; accounts.length never
\* decreases.
\* ------------------------------------------------------------------------
C2_GetAccountFrame ==
  [][ /\ Len(accounts') >= Len(accounts)
      /\ (constructed /\ last'.op = "getAccount" =>
            LET id == last'.arg
                n  == Len(accounts)
            IN /\ Len(accounts') = IF id >= n THEN id + 1 ELSE n
               /\ \A i \in 1..n :
                    /\ accounts'[i] = accounts[i]
                    /\ accountObjs'[accounts[i]] = accountObjs[accounts[i]]
                    /\ balanceMaps'[accountObjs[accounts[i]].balances]
                         = balanceMaps[accountObjs[accounts[i]].balances]
                    /\ storageMaps'[accountObjs[accounts[i]].storage]
                         = storageMaps[accountObjs[accounts[i]].storage]
               /\ \A i \in (n + 1)..Len(accounts') :
                    /\ FreshZero(i - 1)'
                    /\ \A j \in 1..(i - 1) : accounts'[j] # accounts'[i]
               /\ (id < n => /\ accounts' = accounts
                             /\ accountObjs' = accountObjs
                             /\ balanceMaps' = balanceMaps
                             /\ storageMaps' = storageMaps)) ]_vars

\* getAccount(MaxAccountId) extended a one-account state by MaxAccountId accounts
C2_Witness ==
  /\ last.op = "getAccount"
  /\ last.pre = 1
  /\ last.arg = MaxAccountId
  /\ Len(accounts) = MaxAccountId + 1
  /\ \A i \in 1..MaxAccountId : FreshZero(i)

\* ------------------------------------------------------------------------
\* C3: an account's accountId never changes after creation: every account
\* accounts[i] has accountId = i after any sequence of getAccount,
\* getBalance, getStorage and init calls.
\* ------------------------------------------------------------------------
C3_AccountIdStable ==
  \A i \in 0..(Len(accounts) - 1) : Acc(i).accountId = i

\* ------------------------------------------------------------------------
\* C4: a constructed ExchangeState has accounts[0] and accounts.length >= 1;
\* constructed with an empty account list it has exactly one account, the
\* fresh zero-valued fee-pool account with accountId 0, and empty deposits,
\* onchainWithdrawals, processedRequests and owner maps.
\* ------------------------------------------------------------------------
C4_FeePool ==
  /\ constructed => /\ Len(accounts) >= 1
                    /\ accounts[1] \in 1..Len(accountObjs)
  /\ last.op = "constructor" =>
       /\ Acc(0).accountId = 0
       /\ deposits = <<>>
       /\ onchainWithdrawals = <<>>
       /\ processedRequests = <<>>
       /\ DOMAIN accountIdToOwner = {}
       /\ DOMAIN ownerToAccountId = {}
       /\ (last.arg = 0 => Len(accounts) = 1 /\ FreshZero(0))

\* new ExchangeState("0xEXC") has just returned
C4_Witness ==
  /\ constructed
  /\ last.op = "constructor"
  /\ last.arg = 0
  /\ Len(accounts) = 1
  /\ exchange = "0xEXC"

\* ------------------------------------------------------------------------
\* C5: storageID and storageID + k * 2^BINARY_TREE_DEPTH_STORAGE map to the
\* same storage address for all integers k: getStorage on the same account
\* with two such ids returns the same leaf object, and a getStorage call
\* creates at most one map entry, none when the slot exists.
\* ------------------------------------------------------------------------
\* the statement for two consecutive getStorage calls whose ids satisfy D
CycleLaw(D(_)) ==
  /\ (last'.op = "getStorage" /\ D(last'.arg) =>
        Cardinality(DOMAIN storageMaps'[Acc(last'.acct).storage]) <= last'.pre + 1)
  /\ (last.op = "getStorage" /\ last'.op = "getStorage" /\ last'.acct = last.acct
      /\ D(last.arg) /\ D(last'.arg) /\ SameClass(last.arg, last'.arg)
        => /\ last'.ret = last.ret
           /\ storageMaps' = storageMaps)

AnyId(S) == TRUE

Unsigned(S) == S >= 0

\* as claimed: for every integer storage id
C5_AnyInteger == [][CycleLaw(AnyId)]_vars

\* as the code has it: for storage ids that are not negative
C5_Unsigned == [][CycleLaw(Unsigned)]_vars

\* getStorage(17) then getStorage(17 + 2^14) on one account: one slot, one leaf
C5_Witness ==
  /\ last.op = "getStorage"
  /\ again = [rel |-> "cycle", arg |-> 17]
  /\ last.arg = 17 + 2^BINARY_TREE_DEPTH_STORAGE
  /\ last.ret[3] = 17
  /\ DOMAIN StMap(last.acct) = {17}

\* ------------------------------------------------------------------------
\* C6: on any account getBalance(tokenID) of a tokenID never set returns a
\* leaf with balance 0, and getStorage(storageID) of a storageID never set
\* returns a leaf with storageID 0, data 0, gasFee 0, cancelled 0,
\* tokenSID 0, tokenBID 0 and forward 1.
\* ------------------------------------------------------------------------
ZeroStorageLeaf(leaf) ==
  /\ leaf.storageID = 0
  /\ leaf.data = 0
  /\ leaf.gasFee = 0
  /\ leaf.cancelled = 0
  /\ leaf.tokenSID = 0
  /\ leaf.tokenBID = 0
  /\ leaf.forward = 1

BalanceDefault ==
  last.op = "getBalance" /\ last.arg \notin DOMAIN balWritten[last.acct]
    => BalanceLeafOf(last.ret).balance = 0

\* as claimed: the storage id itself was never set
C6_UnsetId ==
  /\ BalanceDefault
  /\ last.op = "getStorage" /\ last.arg \notin stSet[last.acct]
       => ZeroStorageLeaf(StorageLeafOf(last.ret))

\* as the code has it: no storage id of the same slot (a whole number of
\* cycles away) was ever set
C6_UnsetSlot ==
  /\ BalanceDefault
  /\ last.op = "getStorage" /\ (\A T \in stSet[last.acct] : ~SameClass(T, last.arg))
       => ZeroStorageLeaf(StorageLeafOf(last.ret))

\* getStorage materialized a zero leaf in an empty storage map of an account
\* whose balances were written
C6_Witness ==
  /\ last.op = "getStorage"
  /\ last.pre = 0
  /\ stSet[last.acct] = {}
  /\ DOMAIN StMap(last.acct) = {17}
  /\ ZeroStorageLeaf(StorageLeafOf(last.ret))
  /\ balWritten[last.acct] # EmptyMap

\* ------------------------------------------------------------------------
\* C7: accountIdToOwner and ownerToAccountId are an exact bijection over the
\* accounts whose owner is not the zero address, after any sequence of
\* getAccount and init calls.
\* ------------------------------------------------------------------------
C7_OwnerBijection ==
  /\ \A i \in 0..(Len(accounts) - 1) :
       Acc(i).owner # zeroAddress =>
         /\ i \in DOMAIN accountIdToOwner
         /\ accountIdToOwner[i] = Acc(i).owner
         /\ accountIdToOwner[i] \in DOMAIN ownerToAccountId
         /\ ownerToAccountId[accountIdToOwner[i]] = i
  /\ \A i \in DOMAIN accountIdToOwner :
       i \in 0..(Len(accounts) - 1) /\ Acc(i).owner = accountIdToOwner[i]
  /\ \A o \in DOMAIN ownerToAccountId :
       ownerToAccountId[o] \in DOMAIN accountIdToOwner
       /\ accountIdToOwner[ownerToAccountId[o]] = o

\* ------------------------------------------------------------------------
\* C8: getBalance(tokenID) leaves every existing balances entry unchanged
\* and adds at most the key tokenID; getStorage(storageID) leaves every
\* existing storage entry unchanged, does not write storageID into the leaf
\* and adds at most the key storageID mod 2^BINARY_TREE_DEPTH_STORAGE.
\* Neither changes the account's fields, the other map, another account,
\* the logs or the owner maps.
\* ------------------------------------------------------------------------
\* every entry of map m is in m2, the same object with the same contents
Kept(m, m2) == \A k \in DOMAIN m : k \in DOMAIN m2 /\ m2[k] = m[k]

RestUnchanged ==
  /\ accounts' = accounts
  /\ accountObjs' = accountObjs
  /\ exchange' = exchange
  /\ accountIdToOwner' = accountIdToOwner
  /\ ownerToAccountId' = ownerToAccountId
  /\ deposits' = deposits
  /\ onchainWithdrawals' = onchainWithdrawals
  /\ processedRequests' = processedRequests

C8_AccessorFrame ==
  [][ /\ (last'.op = "getBalance" =>
            LET m == Acc(last'.acct).balances
            IN /\ Kept(balanceMaps[m], balanceMaps'[m])
               /\ DOMAIN balanceMaps'[m] \subseteq DOMAIN balanceMaps[m] \cup {last'.arg}
               /\ \A r \in 1..Len(balanceMaps) : r # m => balanceMaps'[r] = balanceMaps[r]
               /\ Len(balanceMaps') = Len(balanceMaps)
               /\ storageMaps' = storageMaps
               /\ RestUnchanged)
      /\ (last'.op = "getStorage" =>
            LET m == Acc(last'.acct).storage
                address == last'.arg % 2^BINARY_TREE_DEPTH_STORAGE
            IN /\ Kept(storageMaps[m], storageMaps'[m])
               /\ DOMAIN storageMaps'[m] \subseteq DOMAIN storageMaps[m] \cup {address}
               /\ (address \notin DOMAIN storageMaps[m] =>
                     storageMaps'[m][address].leaf.storageID = 0)
               /\ \A r \in 1..Len(storageMaps) : r # m => storageMaps'[r] = storageMaps[r]
               /\ Len(storageMaps') = Len(storageMaps)
               /\ balanceMaps' = balanceMaps
               /\ RestUnchanged) ]_vars

\* getBalance(0) added a zero leaf next to the written leaf of token 3
C8_Witness ==
  /\ last.op = "getBalance"
  /\ last.arg = 0
  /\ last.pre = 1
  /\ DOMAIN BalMap(last.acct) = {0, 3}
  /\ BalMap(last.acct)[3].leaf.balance = 1000
  /\ BalMap(last.acct)[0].leaf.balance = 0

\* ------------------------------------------------------------------------
\* C9: the value the applier wrote through the leaf of getBalance(t)
\* (getStorage(S)) is what getBalance(t) (getStorage(T), T in the slot of S)
\* returns on that account until the leaf is written again, whatever
\* getAccount, getBalance and getStorage calls come in between.
\* ------------------------------------------------------------------------
C9_LastWrite ==
  \A a \in LeafAccountIds :
    a < Len(accounts) =>
      /\ \A t \in DOMAIN balWritten[a] :
           LET r == getBalanceOp(balanceMaps, Acc(a).balances, t)
           IN r.balanceMaps[r.ret[2]][r.ret[3]].leaf.balance = balWritten[a][t]
      /\ \A S \in DOMAIN stWritten[a] :
           LET r == getStorageOp(storageMaps, Acc(a).storage, S)
           IN r.storageMaps[r.ret[2]][r.ret[3]].leaf = stWritten[a][S]
      /\ (last.op = "getBalance" /\ last.acct = a /\ last.arg \in DOMAIN balWritten[a]
            => BalanceLeafOf(last.ret).balance = balWritten[a][last.arg])
      /\ (last.op = "getStorage" /\ last.acct = a /\ last.arg \in DOMAIN stWritten[a]
            => StorageLeafOf(last.ret) = stWritten[a][last.arg])

\* 1000 of token 3 deposited to account 1 and storage id 17 written there;
\* later getStorage(17 + 2^14) reads the slot back
C9_Witness ==
  /\ Len(accounts) > 1
  /\ 3 \in DOMAIN balWritten[1]
  /\ balWritten[1][3] = 1000
  /\ BalMap(1)[3].leaf.balance = 1000
  /\ DOMAIN BalMap(1) = {0, 3}
  /\ last.op = "getStorage"
  /\ last.acct = 1
  /\ last.arg = 17 + 2^BINARY_TREE_DEPTH_STORAGE
  /\ StorageLeafOf(last.ret).storageID = 17
  /\ StorageLeafOf(last.ret).data = 7

\* ------------------------------------------------------------------------
\* C10: as long as init was never called with explicit balances or storage,
\* no two accounts of accounts[] share a balances map, a storage map or a
\* leaf, and a getBalance, getStorage or write on one account changes no
\* balance or storage slot of another account.
\* ------------------------------------------------------------------------
NoSharing ==
  \A i, j \in 0..(Len(accounts) - 1) :
    i # j => /\ accounts[i + 1] # accounts[j + 1]
             /\ Acc(i).balances # Acc(j).balances
             /\ Acc(i).storage # Acc(j).storage

LeafOps == {"getBalance", "getStorage", "writeBalance", "writeStorage"}

C10_Exclusive ==
  /\ [](~explicitUsed => NoSharing)
  /\ [][ ~explicitUsed' /\ last'.op \in LeafOps =>
           \A b \in 0..(Len(accounts) - 1) :
             b # last'.acct => /\ BalMap(b)' = BalMap(b)
                               /\ StMap(b)' = StMap(b) ]_vars

\* account 1, re-initialised with default maps, then holds 1000 of token 3;
\* account 0 holds its own zero leaf of token 3
C10_Witness ==
  /\ ~explicitUsed
  /\ nInits > 0
  /\ Len(accounts) > 1
  /\ last.op \in LeafOps
  /\ last.acct = 1
  /\ Acc(1).owner # zeroAddress
  /\ DOMAIN BalMap(1) = {3}
  /\ BalMap(1)[3].leaf.balance = 1000
  /\ DOMAIN BalMap(0) = {3}
  /\ BalMap(0)[3].leaf.balance = 0

====
